---- MODULE Spec2Model ----
(***************************************************************************)
(* Model of src/app.py, the "Buyers Dashboard" Streamlit script.           *)
(*                                                                         *)
(* The script is one handler: Streamlit executes it top to bottom once     *)
(* when the page opens and again, in full, after every change of a sidebar *)
(* widget.  A run reads vcus.csv, normalises it, derives the period key,   *)
(* applies the filters, builds the pivot table and plots the first five    *)
(* rows.  The state is the file, the widget values and what the last run   *)
(* produced.                                                               *)
(*                                                                         *)
(* pandas values are modelled as follows.                                  *)
(*  - A missing cell of the file is the string "NA" (read_csv reads the    *)
(*    text NA as missing).                                                 *)
(*  - A raw date is [kind, y, m]: kind "ok" is a text to_datetime parses   *)
(*    to year y, month m; "bad" is a text it cannot parse (NaT under       *)
(*    errors='coerce'); "na" is an empty cell.                             *)
(*  - A raw quantity is [kind, v]: "num" a number v, "text" a non-numeric  *)
(*    text, "na" an empty cell.                                            *)
(*  - A float that may be NaN is [nan, v].                                 *)
(*  - A period label is [y, p, float]: the year, the quarter or month (0   *)
(*    at Year granularity) and whether the digits were rendered from a     *)
(*    float column ("2020.0-1.0") or an integer one ("2020-01").  Labels   *)
(*    are ordered by (y, p), which is the order of the label strings.      *)
(***************************************************************************)
EXTENDS Integers, Sequences, FiniteSets, TLC

VARIABLES
    csv,                     \* rows of vcus.csv, read afresh by every run
    date_granularity,        \* sidebar radio
    year_range,              \* sidebar slider, <<lo, hi>>
    selected_project_types,  \* sidebar multiselect
    selected_methodologies,  \* sidebar multiselect
    selected_countries,      \* sidebar multiselect
    rendered,                \* what the run put on the page below the title
    filtered_df,             \* rows left by the filters (<<>> if never reached)
    pivot_table,             \* [index, columns, values] or EmptyFrame
    traces                   \* the chart's series, one per plotted row

vars == <<csv, date_granularity, year_range, selected_project_types,
          selected_methodologies, selected_countries, rendered, filtered_df,
          pivot_table, traces>>

----------------------------------------------------------------------------
(* Bounds of the model and constants of the program.                       *)

MaxRecords == 2          \* rows of the file in Spec
MaxFilterRecords == 2    \* rows of the file in SpecFilter
MaxTopRecords == 6       \* rows of the file in SpecTop

TopN == 5                \* pivot_table.head(5)
DefaultYearLo == 2020    \* slider value=(2020, max_year); fallback min_year
FallbackMaxYear == 2024  \* max_year when no row has a year

NA == "NA"
GrandTotal == [y |-> 0, p |-> 0, float |-> FALSE, total |-> TRUE]
Granularities == {"Year", "Quarter", "Month"}

Min(a, b) == IF a <= b THEN a ELSE b
Max(a, b) == IF a >= b THEN a ELSE b
Range(s) == {s[i] : i \in 1..Len(s)}

RECURSIVE SumSeq(_)
SumSeq(s) == IF s = <<>> THEN 0 ELSE Head(s) + SumSeq(Tail(s))

----------------------------------------------------------------------------
(* Loader / normaliser: lines 12-22.                                       *)

\* line 12: read_csv numbers the rows; the index stays with a row throughout
ReadCsv(file) == [i \in 1..Len(file) |-> [row |-> i] @@ file[i]]

\* line 15: df.dropna(subset=['Retirement/Cancellation Date'])
HasDate(r) == r.date.kind # "na"
DropNaDate(df) == SelectSeq(df, HasDate)

\* line 18: pd.to_datetime(..., errors='coerce'): an unparseable text is NaT
ToDatetime(d) ==
    IF d.kind = "ok" THEN [nat |-> FALSE, y |-> d.y, m |-> d.m]
                     ELSE [nat |-> TRUE, y |-> 0, m |-> 0]

\* line 19: .dt.year is NaN on NaT
DtYear(t) == IF t.nat THEN [nan |-> TRUE, v |-> 0] ELSE [nan |-> FALSE, v |-> t.y]

\* lines 21-22: a quantity that is no number becomes NaN
ToNumeric(q) ==
    IF q.kind = "num" THEN [nan |-> FALSE, v |-> q.v] ELSE [nan |-> TRUE, v |-> 0]

NormalizeRow(r) ==
    [row         |-> r.row,
     Beneficiary |-> r.ben,
     Date        |-> ToDatetime(r.date),
     Year        |-> DtYear(ToDatetime(r.date)),
     Quantity    |-> ToNumeric(r.qty),
     ProjectType |-> r.ptype,
     Methodology |-> r.meth,
     Country     |-> r.country]

\* lines 12-22
Normalize(file) ==
    LET kept == DropNaDate(ReadCsv(file))
    IN  [i \in 1..Len(kept) |-> NormalizeRow(kept[i])]

----------------------------------------------------------------------------
(* Period key: lines 34-42.                                                *)

AnyNaT(df) == \E i \in 1..Len(df) : df[i].Date.nat

\* lines 36, 38-39: .dt.year.astype(int) raises on a column that holds NaN;
\* line 41 casts with astype(str) and never raises.
PeriodRaises(g, df) == g \in {"Year", "Quarter"} /\ AnyNaT(df)

Quarter(m) == ((m - 1) \div 3) + 1

\* With a NaT in the column .dt.year and .dt.month are float columns, and
\* astype(str) renders "2020.0" and "nan".
DatePeriod(g, df, t) ==
    IF g = "Year" THEN [y |-> t.y, p |-> 0, float |-> FALSE, total |-> FALSE]
    ELSE IF g = "Quarter"
    THEN [y |-> t.y, p |-> Quarter(t.m), float |-> FALSE, total |-> FALSE]
    ELSE [y |-> t.y, p |-> t.m, float |-> AnyNaT(df), total |-> FALSE]

WithPeriod(g, df) ==
    [i \in 1..Len(df) |->
        [Period |-> DatePeriod(g, df, df[i].Date)] @@ df[i]]

\* The frame the rest of the script works on, once line 42 is passed.
Frame(g, file) == WithPeriod(g, Normalize(file))

----------------------------------------------------------------------------
(* Sidebar: lines 44-81.                                                   *)

Years(df) == {df[i].Year.v : i \in {j \in 1..Len(df) : ~df[j].Year.nan}}
SetMin(S) == CHOOSE x \in S : \A z \in S : x <= z
SetMax(S) == CHOOSE x \in S : \A z \in S : x >= z

\* lines 45-46
min_year(df) == IF Years(df) # {} THEN SetMin(Years(df)) ELSE DefaultYearLo
max_year(df) == IF Years(df) # {} THEN SetMax(Years(df)) ELSE FallbackMaxYear

\* lines 48-54: the slider opens at (2020, max_year); Streamlit puts the two
\* ends in order and widens the slider's span to hold them.
DefaultYearRange(df) ==
    <<Min(DefaultYearLo, max_year(df)), Max(DefaultYearLo, max_year(df))>>
SliderSpan(df) ==
    Min(min_year(df), DefaultYearRange(df)[1])
        .. Max(max_year(df), DefaultYearRange(df)[2])

\* lines 57, 66, 75: the options are the values present, missing ones dropped
project_types(df) == {df[i].ProjectType : i \in 1..Len(df)} \ {NA}
methodologies(df) == {df[i].Methodology : i \in 1..Len(df)} \ {NA}
countries(df)     == {df[i].Country : i \in 1..Len(df)} \ {NA}

----------------------------------------------------------------------------
(* Filter step: lines 83-96.                                               *)

\* Comparisons with NaN are False.
YearGE(yv, lo) == ~yv.nan /\ yv.v >= lo
YearLE_Exclusive(yv, hi) == ~yv.nan /\ yv.v < hi
YearLE(yv, hi) == ~yv.nan /\ yv.v <= hi

\* lines 84-87
YearMask(df, yr) ==
    LET Keep(r) == YearGE(r.Year, yr[1]) /\ YearLE(r.Year, yr[2])
    IN  SelectSeq(df, Keep)

\* Series.isin: a missing value is a member of no selection of options
IsIn(v, sel) == v # NA /\ v \in sel

\* lines 89-90
ProjectTypeFilter(df, sel) ==
    LET Keep(r) == IsIn(r.ProjectType, sel)
    IN  IF Cardinality(sel) > 0 THEN SelectSeq(df, Keep) ELSE df

\* lines 92-93
MethodologyFilter(df, sel) ==
    LET Keep(r) == IsIn(r.Methodology, sel)
    IN  IF Cardinality(sel) > 0 THEN SelectSeq(df, Keep) ELSE df

\* lines 95-96
CountryFilter(df, sel) ==
    LET Keep(r) == IsIn(r.Country, sel)
    IN  IF Cardinality(sel) > 0 THEN SelectSeq(df, Keep) ELSE df

\* lines 84-96, in the order of the script
ApplyFilters(df, yr, pt, me, co) ==
    CountryFilter(MethodologyFilter(ProjectTypeFilter(YearMask(df, yr), pt), me), co)

----------------------------------------------------------------------------
(* Aggregator: lines 98-110.                                               *)

EmptyFrame == [index |-> <<>>, columns |-> <<>>, values |-> <<>>]

\* Beneficiary names in the order sort puts them in.
Alphabet == <<"A", "B", "C", "D", "E", "F", "G">>
SortNames(S) == LET In(b) == b \in S IN SelectSeq(Alphabet, In)

LabelLE(a, b) == a.y < b.y \/ (a.y = b.y /\ a.p <= b.p)
RECURSIVE SortLabels(_)
SortLabels(S) ==
    IF S = {} THEN <<>>
    ELSE LET least == CHOOSE a \in S : \A b \in S : LabelLE(a, b)
         IN  <<least>> \o SortLabels(S \ {least})

\* groupby drops the rows whose key is missing (dropna=True)
HasBeneficiary(r) == r.Beneficiary # NA
Grouped(f) == SelectSeq(f, HasBeneficiary)

\* aggfunc='sum': NaN is skipped, and a group of NaN alone sums to 0
Contribution(r) == IF r.Quantity.nan THEN 0 ELSE r.Quantity.v
RECURSIVE SumQuantity(_)
SumQuantity(f) ==
    IF f = <<>> THEN 0 ELSE Contribution(Head(f)) + SumQuantity(Tail(f))

\* one cell: the group's sum, or fill_value=0 where there is no group
Cell(f, b, c) ==
    LET InGroup(r) == r.Beneficiary = b /\ r.Period = c
    IN  SumQuantity(SelectSeq(Grouped(f), InGroup))

\* lines 100-106
PivotTable(f) ==
    LET g    == Grouped(f)
        rows == {g[i].Beneficiary : i \in 1..Len(g)}
        cols == {g[i].Period : i \in 1..Len(g)}
    IN  [index   |-> SortNames(rows),
         columns |-> SortLabels(cols),
         values  |-> [b \in rows |-> [c \in cols |-> Cell(f, b, c)]]]

RowSum_FirstColumnOnly(p, b) ==
    IF p.columns = <<>> THEN 0 ELSE p.values[b][p.columns[1]]
\* pivot_table.sum(axis=1) for one row
RowSum(p, b) == SumSeq([j \in 1..Len(p.columns) |-> p.values[b][p.columns[j]]])

\* line 109
AddGrandTotal(p) ==
    [index   |-> p.index,
     columns |-> Append(p.columns, GrandTotal),
     values  |-> [b \in Range(p.index) |->
                    [c \in Range(p.columns) \cup {GrandTotal} |->
                        IF c = GrandTotal THEN RowSum(p, b) ELSE p.values[b][c]]]]

SortValues_Unsorted(p) == {p}
\* line 110: sort_values(ascending=False) with the default kind='quicksort',
\* which is not a stable sort: rows of equal Grand Total come out in an order
\* the build decides.  RowOrders is every order the sort may return.
RECURSIVE RowOrders(_, _)
RowOrders(p, S) ==
    IF S = {} THEN {<<>>}
    ELSE LET top == {b \in S : \A z \in S :
                        p.values[b][GrandTotal] >= p.values[z][GrandTotal]}
         IN  UNION {{<<b>> \o rest : rest \in RowOrders(p, S \ {b})} : b \in top}

SortValues(p) ==
    {[index |-> o, columns |-> p.columns, values |-> p.values] :
        o \in RowOrders(p, Range(p.index))}

\* lines 115, 117, 119: the three metrics
TotalBeneficiaries(p) == Len(p.index)
TotalCreditsIssued(p) ==
    SumSeq([i \in 1..Len(p.index) |-> p.values[p.index[i]][GrandTotal]])
PeriodsCovered(p) == Len(SelectSeq(p.columns, LAMBDA c : c # GrandTotal))

----------------------------------------------------------------------------
(* Top-N selector: lines 130-144.                                          *)

Top5_All(p) == p.index
\* line 130: pivot_table.head(5)
Top5(p) == SubSeq(p.index, 1, Min(TopN, Len(p.index)))

\* line 131
PeriodColumns(p) == SelectSeq(p.columns, LAMBDA c : c # GrandTotal)

\* lines 136-144: one trace per row of top_5
Trace(p, b) ==
    [name |-> b,
     x    |-> PeriodColumns(p),
     y    |-> [j \in 1..Len(PeriodColumns(p)) |-> p.values[b][PeriodColumns(p)[j]]]]

Traces(p) == [i \in 1..Len(Top5(p)) |-> Trace(p, Top5(p)[i])]

----------------------------------------------------------------------------
(* One run of the script.                                                  *)

\* What a run leaves on the page and in its frames.  The exception of line
\* 36 or 38 ends the run before the slider and the multiselects are created,
\* so they are back at their defaults in the next run that creates them.
Raised(df) ==
    /\ year_range' = DefaultYearRange(df)
    /\ selected_project_types' = {}
    /\ selected_methodologies' = {}
    /\ selected_countries' = {}
    /\ rendered' = {"exception"}
    /\ filtered_df' = <<>>
    /\ pivot_table' = EmptyFrame
    /\ traces' = <<>>

\* lines 98-161: there is no else branch; an empty filtered_df renders nothing
Render(f) ==
    IF Len(f) > 0
    THEN /\ pivot_table' \in SortValues(AddGrandTotal(PivotTable(f)))
         /\ traces' = Traces(pivot_table')
         /\ rendered' = {"metric", "dataframe", "plotly_chart"}
    ELSE /\ pivot_table' = EmptyFrame
         /\ traces' = <<>>
         /\ rendered' = {}

\* lines 12-161 with the widgets at g, yr, pt, me, co
Run(g, yr, pt, me, co) ==
    /\ csv' = csv
    /\ date_granularity' = g
    /\ IF PeriodRaises(g, Normalize(csv))
       THEN Raised(Normalize(csv))
       ELSE /\ year_range' = yr
            /\ selected_project_types' = pt
            /\ selected_methodologies' = me
            /\ selected_countries' = co
            /\ filtered_df' = ApplyFilters(Frame(g, csv), yr, pt, me, co)
            /\ Render(filtered_df')

\* the widgets below the radio exist only if the last run got past line 42
SidebarShown == "exception" \notin rendered

----------------------------------------------------------------------------
(* Actions: each change of a widget reruns the script.                     *)

SetGranularity(g) ==
    /\ g # date_granularity
    /\ Run(g, year_range, selected_project_types, selected_methodologies,
           selected_countries)

SetYearRange(lo, hi) ==
    /\ SidebarShown
    /\ lo <= hi
    /\ <<lo, hi>> # year_range
    /\ Run(date_granularity, <<lo, hi>>, selected_project_types,
           selected_methodologies, selected_countries)

\* lines 56-81: the three multiselects, by the column each one filters
Fields == {"Project Type", "Methodology", "Country/Area"}
Options(field, df) ==
    CASE field = "Project Type" -> project_types(df)
      [] field = "Methodology"  -> methodologies(df)
      [] field = "Country/Area" -> countries(df)
Selection(field) ==
    CASE field = "Project Type" -> selected_project_types
      [] field = "Methodology"  -> selected_methodologies
      [] field = "Country/Area" -> selected_countries

SetSelection(field, sel) ==
    /\ SidebarShown
    /\ sel # Selection(field)
    /\ Run(date_granularity, year_range,
           IF field = "Project Type" THEN sel ELSE selected_project_types,
           IF field = "Methodology" THEN sel ELSE selected_methodologies,
           IF field = "Country/Area" THEN sel ELSE selected_countries)

\* a rerun with nothing changed (the page's Rerun command)
Rerun ==
    Run(date_granularity, year_range, selected_project_types,
        selected_methodologies, selected_countries)

Next ==
    \/ \E g \in Granularities : SetGranularity(g)
    \/ \E lo, hi \in SliderSpan(Normalize(csv)) : SetYearRange(lo, hi)
    \/ \E field \in Fields :
           \E sel \in SUBSET Options(field, Normalize(csv)) : SetSelection(field, sel)
    \/ Rerun

----------------------------------------------------------------------------
(* Initial states: a file, and the script's first run with every widget at *)
(* its default (radio index=0, slider (2020, max_year), default=[]).       *)

Files(U, n) == UNION {[1..k -> U] : k \in 1..n}

FirstRun(file) ==
    LET df == Normalize(file)
    IN  /\ csv = file
        /\ date_granularity = "Year"
        /\ year_range = DefaultYearRange(df)
        /\ selected_project_types = {}
        /\ selected_methodologies = {}
        /\ selected_countries = {}
        /\ IF PeriodRaises("Year", df)
           THEN /\ rendered = {"exception"}
                /\ filtered_df = <<>>
                /\ pivot_table = EmptyFrame
                /\ traces = <<>>
           ELSE /\ filtered_df = ApplyFilters(Frame("Year", file),
                                              DefaultYearRange(df), {}, {}, {})
                /\ IF Len(filtered_df) > 0
                   THEN /\ pivot_table \in
                              SortValues(AddGrandTotal(PivotTable(filtered_df)))
                        /\ traces = Traces(pivot_table)
                        /\ rendered = {"metric", "dataframe", "plotly_chart"}
                   ELSE /\ pivot_table = EmptyFrame
                        /\ traces = <<>>
                        /\ rendered = {}

Jan2020 == [kind |-> "ok", y |-> 2020, m |-> 1]
May2021 == [kind |-> "ok", y |-> 2021, m |-> 5]
BadDate == [kind |-> "bad", y |-> 0, m |-> 0]
NoDate  == [kind |-> "na", y |-> 0, m |-> 0]
Num(v)  == [kind |-> "num", v |-> v]
Text    == [kind |-> "text", v |-> 0]

\* Spec: files that vary in beneficiary, date and quantity.
PivotRecords ==
    [ben : {"A", "B", NA}, date : {Jan2020, May2021, BadDate},
     qty : {Num(1), Text},
     ptype : {"Forestry"}, meth : {NA}, country : {NA}]

\* SpecFilter: files that vary in date and in the three filtered fields; a
\* row has one of the three missing.
Categories ==
    {[ptype |-> NA,         meth |-> "VM0007", country |-> "India"],
     [ptype |-> "Forestry", meth |-> NA,       country |-> "India"],
     [ptype |-> "Forestry", meth |-> "VM0007", country |-> NA]}
FilterRecords ==
    {[ben |-> "A", date |-> d, qty |-> Num(1)] @@ c :
        d \in {Jan2020, May2021, BadDate, NoDate}, c \in Categories}

\* SpecTop: files that list up to MaxTopRecords beneficiaries once each, the
\* i-th with quantity i in January 2020 or quantity i + 1 in May 2021, so that
\* neighbours can tie.
TopRecord(i, late) ==
    [ben |-> Alphabet[i],
     date |-> IF late THEN May2021 ELSE Jan2020,
     qty |-> Num(IF late THEN i + 1 ELSE i),
     ptype |-> "Forestry", meth |-> NA, country |-> NA]
TopFiles ==
    UNION {{[i \in 1..k |-> TopRecord(i, late[i])] : late \in [1..k -> BOOLEAN]} :
              k \in 1..MaxTopRecords}

Init == \E file \in Files(PivotRecords, MaxRecords) : FirstRun(file)
InitFilter == \E file \in Files(FilterRecords, MaxFilterRecords) : FirstRun(file)
InitTop == \E file \in TopFiles : FirstRun(file)

Spec == Init /\ [][Next]_vars
SpecFilter == InitFilter /\ [][Next]_vars
SpecTop == InitTop /\ [][Next]_vars

----------------------------------------------------------------------------
(* Properties.                                                             *)

TableShown == "dataframe" \in rendered
Shown(p) == SelectSeq(p.columns, LAMBDA c : ~c.total)
Total(p, b) == p.values[b][GrandTotal]
RowsOf(f) == {f[i].row : i \in 1..Len(f)}

\* The four predicates of the filter step on a row of the file, read off
\* the file itself.
InYearRange(r) ==
    r.date.kind = "ok" /\ year_range[1] <= r.date.y /\ r.date.y <= year_range[2]
Selected(v, sel) == sel = {} \/ v \in sel
Passes(r) ==
    /\ InYearRange(r)
    /\ Selected(r.ptype, selected_project_types)
    /\ Selected(r.meth, selected_methodologies)
    /\ Selected(r.country, selected_countries)

FilterStep(name, df) ==
    CASE name = "year"        -> YearMask(df, year_range)
      [] name = "projectType" -> ProjectTypeFilter(df, selected_project_types)
      [] name = "methodology" -> MethodologyFilter(df, selected_methodologies)
      [] name = "country"     -> CountryFilter(df, selected_countries)
StepNames == {"year", "projectType", "methodology", "country"}
StepOrders == {o \in [1..4 -> StepNames] : \A i, j \in 1..4 : o[i] = o[j] => i = j}
RECURSIVE ApplyInOrder(_, _)
ApplyInOrder(o, df) ==
    IF o = <<>> THEN df ELSE ApplyInOrder(Tail(o), FilterStep(Head(o), df))

\* C1: the filter step returns exactly the rows of the file whose year is
\* defined and within [lo, hi] and whose project type, methodology and
\* country each pass their selection (an empty selection passes every row),
\* as they stand in the frame and in the frame's order; and applying the four
\* predicates in any order gives that same result.
C1_FilterIsConjunction ==
    SidebarShown =>
        LET df == Frame(date_granularity, csv)
            Keep(r) == Passes(csv[r.row])
        IN  /\ filtered_df = SelectSeq(df, Keep)
            /\ RowsOf(filtered_df) = {i \in 1..Len(csv) : Passes(csv[i])}
            /\ \A i \in 1..Len(filtered_df) :
                   /\ ~filtered_df[i].Year.nan
                   /\ filtered_df[i].Year.v \in year_range[1]..year_range[2]
            /\ \A o \in StepOrders : ApplyInOrder(o, df) = filtered_df

\* C1 witness: a project type is selected, a row whose year is in the range
\* is rejected for its project type, and another row is kept.
C1_Witness ==
    /\ SidebarShown
    /\ selected_project_types # {}
    /\ Len(filtered_df) = 1
    /\ \E i \in 1..Len(csv) :
           /\ InYearRange(csv[i])
           /\ ~Selected(csv[i].ptype, selected_project_types)

\* C2 as claimed: with the other inputs fixed, a field's all-inclusive
\* selection (every option offered) gives the output its empty selection
\* gives, for each of the three fields.
C2_EmptyEqualsAllInclusive ==
    SidebarShown =>
        LET df == Frame(date_granularity, csv)
        IN  /\ selected_project_types = project_types(df) =>
                   filtered_df = ApplyFilters(df, year_range, {},
                                   selected_methodologies, selected_countries)
            /\ selected_methodologies = methodologies(df) =>
                   filtered_df = ApplyFilters(df, year_range,
                                   selected_project_types, {}, selected_countries)
            /\ selected_countries = countries(df) =>
                   filtered_df = ApplyFilters(df, year_range,
                                   selected_project_types, selected_methodologies, {})

\* C3 as claimed: when the filtered set is not empty, the Grand Totals of the
\* pivot rows add up to the quantities of all filtered rows, a missing or
\* non-numeric quantity counting as zero.
C3_GlobalConservation ==
    Len(filtered_df) > 0 =>
        TotalCreditsIssued(pivot_table) = SumQuantity(filtered_df)

\* C4 as claimed: a file with an unparseable date never ends a run in an
\* exception, at any granularity, and the row of that date is in no filtered
\* set and so in no period column.
C4_UnparseableDateNeverFatal ==
    (\E i \in 1..Len(csv) : csv[i].date.kind = "bad") =>
        /\ "exception" \notin rendered
        /\ \A k \in 1..Len(filtered_df) :
               /\ filtered_df[k].Year.nan = FALSE
               /\ csv[filtered_df[k].row].date.kind # "bad"

\* C5 as claimed: a run whose filtered set is empty builds no pivot and plots
\* nothing, and tells the user that there is no data for the current filters.
C5_EmptyResultReported ==
    (SidebarShown /\ Len(filtered_df) = 0) =>
        /\ pivot_table = EmptyFrame
        /\ traces = <<>>
        /\ "info" \in rendered

\* C6 as claimed: the pivot has one row per beneficiary present in the
\* filtered set, one period column per period key present in the filtered
\* set, and each cell is the sum of the matching filtered quantities (0 when
\* there is none).
C6_PivotShape ==
    Len(filtered_df) > 0 =>
        LET f == filtered_df
            Match(b, c) ==
                SelectSeq(f, LAMBDA r : r.Beneficiary = b /\ r.Period = c)
        IN  /\ Range(pivot_table.index) =
                   {f[i].Beneficiary : i \in 1..Len(f)} \ {NA}
            /\ Len(pivot_table.index) = Cardinality(Range(pivot_table.index))
            /\ Range(Shown(pivot_table)) = {f[i].Period : i \in 1..Len(f)}
            /\ Len(Shown(pivot_table)) = Cardinality(Range(Shown(pivot_table)))
            /\ \A b \in Range(pivot_table.index) :
                   \A c \in Range(Shown(pivot_table)) :
                       pivot_table.values[b][c] = SumQuantity(Match(b, c))

NonIncreasing(p) ==
    \A i \in 1..(Len(p.index) - 1) :
        Total(p, p.index[i]) >= Total(p, p.index[i + 1])
\* position of a name in the index before the sort (groupby sorts the keys)
Before(a, b) ==
    \E i, j \in 1..Len(Alphabet) : i < j /\ Alphabet[i] = a /\ Alphabet[j] = b

\* C7 as claimed: rows are non-increasing by Grand Total and rows of equal
\* Grand Total keep the order they had before the sort.
C7_SortedAndStable ==
    TableShown =>
        /\ NonIncreasing(pivot_table)
        /\ \A i, j \in 1..Len(pivot_table.index) :
               (/\ i < j
                /\ Total(pivot_table, pivot_table.index[i])
                       = Total(pivot_table, pivot_table.index[j]))
               => Before(pivot_table.index[i], pivot_table.index[j])

\* C7 amended: in the pivot handed to the render layer every row's Grand
\* Total is at least that of the row below it, and the rows are the rows of
\* the aggregation, each once.
C7_SortedNonIncreasing ==
    TableShown =>
        /\ NonIncreasing(pivot_table)
        /\ Range(pivot_table.index) = Range(PivotTable(filtered_df).index)
        /\ Len(pivot_table.index) = Len(PivotTable(filtered_df).index)

\* C7 witness: the sort moved a row up, past a row that precedes it by name.
C7_Witness ==
    /\ TableShown
    /\ \E i \in 1..(Len(pivot_table.index) - 1) :
           /\ Before(pivot_table.index[i + 1], pivot_table.index[i])
           /\ Total(pivot_table, pivot_table.index[i])
                  > Total(pivot_table, pivot_table.index[i + 1])

RECURSIVE SumCells(_, _)
SumCells(row, S) ==
    IF S = {} THEN 0
    ELSE LET c == CHOOSE x \in S : TRUE IN row[c] + SumCells(row, S \ {c})

\* C8: in every row of the pivot the Grand Total cell is the sum of the
\* row's cells in all the other columns.
C8_GrandTotalIsRowSum ==
    TableShown =>
        \A b \in Range(pivot_table.index) :
            Total(pivot_table, b) =
                SumCells(pivot_table.values[b],
                         Range(pivot_table.columns) \ {GrandTotal})

\* C8 witness: a row with a quantity in each of two period columns.
C8_Witness ==
    /\ TableShown
    /\ \E b \in Range(pivot_table.index) :
           \E c, d \in Range(Shown(pivot_table)) :
               /\ c # d
               /\ pivot_table.values[b][c] > 0
               /\ pivot_table.values[b][d] > 0

\* C9 as claimed: a change of granularity alone, the file and the filter
\* inputs staying the same, leaves the set of pivot rows and every row's
\* Grand Total as they were.
C9_GranularityPreservesTotals ==
    [][(/\ date_granularity' # date_granularity
        /\ csv' = csv
        /\ year_range' = year_range
        /\ selected_project_types' = selected_project_types
        /\ selected_methodologies' = selected_methodologies
        /\ selected_countries' = selected_countries)
       => (/\ Range(pivot_table'.index) = Range(pivot_table.index)
           /\ \A b \in Range(pivot_table.index) :
                  Total(pivot_table', b) = Total(pivot_table, b))]_vars

\* C10: the chart has one series for each of the first min(5, rows) rows of
\* the pivot, in the pivot's row order; a series carries the pivot's period
\* columns in the pivot's column order, without Grand Total, and the row's
\* value in each.
C10_TopFiveSeries ==
    "plotly_chart" \in rendered =>
        LET p == pivot_table
            n == Len(p.columns) - 1
        IN  /\ Len(traces) = Min(TopN, Len(p.index))
            /\ \A i \in 1..Len(traces) :
                   /\ traces[i].name = p.index[i]
                   /\ traces[i].x = SubSeq(p.columns, 1, n)
                   /\ GrandTotal \notin Range(traces[i].x)
                   /\ Len(traces[i].y) = n
                   /\ \A j \in 1..n :
                          traces[i].y[j] = p.values[p.index[i]][p.columns[j]]

\* C10 witness: a pivot of more than five rows and two period columns, with
\* two of the plotted rows tied.
C10_Witness ==
    /\ "plotly_chart" \in rendered
    /\ Len(pivot_table.index) > TopN
    /\ Len(traces) = TopN
    /\ Len(pivot_table.columns) = 3
    /\ \E i \in 1..(TopN - 1) :
           Total(pivot_table, pivot_table.index[i])
               = Total(pivot_table, pivot_table.index[i + 1])

====
